---------------------------- MODULE Spec2Model ----------------------------
(***************************************************************************)
(* A model of src/main.py: the YouTube video summarizer.                   *)
(*                                                                         *)
(* summarize_youtube_video is modelled as a state machine, one action per  *)
(* statement that can return or raise; extract_video_id, str.join and      *)
(* str.strip are operators on strings, computed the way Python computes    *)
(* them.  The external collaborators (the model repository, the transcript *)
(* service, the tokenizer and the generator) are nondeterministic: every   *)
(* call either returns a value or raises an Exception with some message.   *)
(***************************************************************************)
EXTENDS Integers, Sequences, FiniteSets, TLC

(***************************************************************************)
(* Strings.  A Python str is a TLA+ string; s[i-1] is Char(s, i).          *)
(***************************************************************************)

\* s[i-1] as a one-character string
Char(s, i) == SubSeq(s, i, i)

\* s.startswith(lit, i-1)
HasAt(s, i, lit) ==
    /\ i + Len(lit) - 1 <= Len(s)
    /\ SubSeq(s, i, i + Len(lit) - 1) = lit

\* White-space characters that have no escape in a string: each definition
\* below holds the one character itself, named here by its code point.
VT == ""     \* U+000B, vertical tab
FS == ""     \* U+001C, file separator
GS == ""     \* U+001D, group separator
RS == ""     \* U+001E, record separator
US == ""     \* U+001F, unit separator
NEL == ""    \* U+0085, next line
NBSP == " "   \* U+00A0, no-break space

\* The characters the regular expression class \s (of a str pattern) and
\* str.strip() treat as white space: those for which str.isspace() is true.
\* The white space above U+00FF (U+1680, U+2000 to U+200A, U+2028, U+2029,
\* U+202F, U+205F, U+3000) cannot be written in a module and is left out; no
\* input of the model contains it.
Whitespace == {" ", "\t", "\n", "\r", "\f", VT, FS, GS, RS, US, NEL, NBSP}

\* The class [^&\s] of the four patterns
IdChar(c) == c # "&" /\ c \notin Whitespace

\* The patterns of extract_video_id.  Each is
\*   (?:https?:\/\/)?  [ (?:www\.)? ]  <literal>  ([^&\s]+)
\* and is given by whether it has the optional www. part and by its literal.
patterns ==
    << [www |-> TRUE,  lit |-> "youtube.com/watch?v="],
       [www |-> FALSE, lit |-> "youtu.be/"],
       [www |-> TRUE,  lit |-> "youtube.com/embed/"],
       [www |-> TRUE,  lit |-> "youtube.com/v/"] >>

\* What the optional groups in front of the literal can consume, in the order
\* the backtracking matcher tries them (a greedy ? takes its group first).
Prefixes(p) ==
    IF p.www
    THEN << "https://www.", "https://", "http://www.", "http://", "www.", "" >>
    ELSE << "https://", "http://", "" >>

\* The greedy ([^&\s]+) from position j: the index of the last character of
\* the longest run of IdChars that starts at j (j-1 when the run is empty).
RunEnd(s, j) ==
    CHOOSE e \in (j-1)..Len(s) :
        /\ \A k \in j..e : IdChar(Char(s, k))
        /\ (e = Len(s) \/ ~IdChar(Char(s, e + 1)))

NoMatch == [matched |-> FALSE, start |-> 0, group |-> ""]

\* Every way pattern p matches in s: the literal at position j with at least
\* one IdChar behind it, and in front of it, from position start, what
\* alternative alt of the optional groups consumes.
Matches(p, s) ==
    LET n == Len(p.lit)
        lits == {j \in 1..(Len(s) - n) : HasAt(s, j, p.lit) /\ IdChar(Char(s, j + n))}
    IN  {[start |-> j - Len(Prefixes(p)[a]), alt |-> a, lit |-> j] :
            <<j, a>> \in {y \in lits \X DOMAIN Prefixes(p) :
                            /\ y[1] - Len(Prefixes(p)[y[2]]) >= 1
                            /\ HasAt(s, y[1] - Len(Prefixes(p)[y[2]]), Prefixes(p)[y[2]])}}

\* re.search(p, s): the match at the leftmost position where p matches, and
\* there the one of the first alternative the backtracking matcher tries; the
\* group runs from behind the literal to the end of the run of IdChars.
re_search(p, s) ==
    LET all == Matches(p, s)
    IN  IF all = {} THEN NoMatch
        ELSE LET m == CHOOSE x \in all : \A y \in all :
                         \/ x.start < y.start
                         \/ x.start = y.start /\ x.alt <= y.alt
                 g == m.lit + Len(p.lit)
             IN  [matched |-> TRUE, start |-> m.start,
                  group |-> SubSeq(s, g, RunEnd(s, g))]

\* A variant of extract_video_id: the match that starts leftmost in the
\* string, whichever pattern it belongs to.
extract_video_id_leftmost(youtube_url) ==
    LET hits == {k \in DOMAIN patterns : re_search(patterns[k], youtube_url).matched}
        at(k) == re_search(patterns[k], youtube_url).start
    IN  IF hits = {}
        THEN [raised |-> TRUE, value |-> "Invalid YouTube URL"]
        ELSE [raised |-> FALSE,
              value |-> re_search(patterns[CHOOSE k \in hits : \A h \in hits : at(k) <= at(h)],
                                  youtube_url).group]

\* A variant of extract_video_id: an input no pattern matches is taken to be
\* the identifier itself.
extract_video_id_lenient(youtube_url) ==
    LET hits == {k \in DOMAIN patterns : re_search(patterns[k], youtube_url).matched}
    IN  IF hits = {}
        THEN [raised |-> FALSE, value |-> youtube_url]
        ELSE [raised |-> FALSE,
              value |-> re_search(patterns[CHOOSE k \in hits : \A h \in hits : k <= h],
                                  youtube_url).group]

\* extract_video_id(youtube_url): the group of the first pattern, in the order
\* of the list, that matches; ValueError when none does.
extract_video_id(youtube_url) ==
    LET hits == {k \in DOMAIN patterns : re_search(patterns[k], youtube_url).matched}
    IN  IF hits = {}
        THEN [raised |-> TRUE, value |-> "Invalid YouTube URL"]
        ELSE [raised |-> FALSE,
              value |-> re_search(patterns[CHOOSE k \in hits : \A h \in hits : k <= h],
                                  youtube_url).group]

\* A variant of strip: the text is tested as it is.
strip_nothing(s) == s

\* str.strip(): s without its leading and trailing white space
strip(s) ==
    LET keep == {i \in 1..Len(s) : Char(s, i) \notin Whitespace}
    IN  IF keep = {} THEN ""
        ELSE SubSeq(s, CHOOSE i \in keep : \A j \in keep : i <= j,
                       CHOOSE i \in keep : \A j \in keep : i >= j)

\* A variant of join: the separator is left out.
RECURSIVE join_unseparated(_, _)
join_unseparated(sep, strs) ==
    IF strs = <<>> THEN "" ELSE strs[1] \o join_unseparated(sep, Tail(strs))

\* sep.join(strs)
RECURSIVE join(_, _)
join(sep, strs) ==
    IF strs = <<>> THEN ""
    ELSE IF Len(strs) = 1 THEN strs[1]
    ELSE strs[1] \o sep \o join(sep, Tail(strs))

(***************************************************************************)
(* Program constants.                                                      *)
(***************************************************************************)
model_name == "facebook/bart-large-cnn"
TokenizerMaxLength == 1024
Buffer == 50
NumBeams == 4
LengthPenalty == 2

\* The strings the program returns
UnexpectedPrefix == "An unexpected error occurred: "
FetchErrorPrefix == "Error fetching transcript: "
NoTranscriptMsg == "No transcript available for this video."
EmptyTranscriptMsg == "Empty transcript found."
Placeholder == "Could not generate summary due to an error."

(***************************************************************************)
(* Bounds of the model and the inputs and collaborator responses it draws. *)
(***************************************************************************)
MaxCalls == 2       \* invocations of summarize_youtube_video in one run
MaxFragments == 3   \* caption fragments in a transcript
MaxSegs == 3        \* URL pieces an input of extract_video_id is built from

\* The URLs given to summarize_youtube_video
Urls ==
    { "https://www.youtube.com/watch?v=dQw4w9WgXcQ",
      "https://youtu.be/J8O9_ugpDjE",
      "youtube.com/embed/abc&t=1",
      "not a url" }

MaxLengths == {20, 250}
MinLengths == {10, 100}

\* The pieces the inputs of extract_video_id are concatenated from
Segments ==
    { "https://", "http://", "www.",
      "youtube.com/watch?v=", "youtu.be/", "youtube.com/embed/", "youtube.com/v/",
      "dQw4w9WgXcQ", "x", "&", " ", VT }

RECURSIVE Concats(_)
Concats(n) ==
    IF n = 0 THEN {""}
    ELSE LET shorter == Concats(n - 1)
         IN  shorter \cup {u \o seg : u \in shorter, seg \in Segments}

UrlInputs == Urls \cup Concats(MaxSegs)

\* Caption fragments: the text and the timing fields; the last one lacks its
\* text field.
Fragments ==
    { [text |-> "Hello", start |-> 0, duration |-> 1],
      [text |-> "world.", start |-> 1, duration |-> 1],
      [text |-> "", start |-> 2, duration |-> 1],
      [text |-> " \t" \o VT \o FS, start |-> 3, duration |-> 1],
      [start |-> 4, duration |-> 1] }

RECURSIVE SeqsUpTo(_, _)
SeqsUpTo(S, n) ==
    IF n = 0 THEN {<<>>}
    ELSE LET shorter == SeqsUpTo(S, n - 1)
         IN  shorter \cup {Append(q, e) : q \in shorter, e \in S}

Transcripts == SeqsUpTo(Fragments, MaxFragments)

\* Messages of the exceptions the collaborators raise
LoadErrors == {"facebook/bart-large-cnn is not a valid model identifier"}
FetchErrors == {"Subtitles are disabled for this video",
                "An unexpected error occurred: video unavailable"}
SummarizeErrors == {"index out of range in self"}
\* Texts the tokenizer decodes
Summaries == {"The video says hello to the world.", ""}

(***************************************************************************)
(* State.                                                                  *)
(***************************************************************************)
VARIABLES
    pc,            \* the statement summarize_youtube_video is at
    ncall,         \* invocations started so far
    youtube_url, max_length, min_length,   \* the arguments of the invocation
    tokenizer, model,                      \* locals of summarize_youtube_video
    video_id, transcript, full_text, summary,
    result,        \* how the invocation ended: what it returned or raised
    trace          \* the calls of this invocation and how each ended

args == <<youtube_url, max_length, min_length>>
locals == <<tokenizer, model, video_id, transcript, full_text, summary>>
vars == <<pc, ncall, args, locals, result, trace>>

Unbound == "<unbound>"
NoResult == [kind |-> "none", value |-> ""]

\* Entries of the trace
Call(fn, data) == [ev |-> "call", fn |-> fn, data |-> data]
Returned(fn, data) == [ev |-> "return", fn |-> fn, data |-> data]
Raised(fn, msg) == [ev |-> "raise", fn |-> fn, data |-> <<msg>>]

Init ==
    /\ pc = "idle"
    /\ ncall = 0
    /\ youtube_url = "" /\ max_length = 250 /\ min_length = 50
    /\ tokenizer = Unbound /\ model = Unbound
    /\ video_id = Unbound /\ transcript = <<>> /\ full_text = Unbound
    /\ summary = Unbound
    /\ result = NoResult
    /\ trace = <<>>

(***************************************************************************)
(* summarize_youtube_video                                                 *)
(***************************************************************************)

\* return <value>
Return(value) ==
    /\ result' = [kind |-> "return", value |-> value]
    /\ pc' = "done"

\* A variant of Except: no outer handler, the exception leaves the function.
ExceptPropagates(e) ==
    /\ result' = [kind |-> "raise", value |-> e]
    /\ pc' = "done"

\* The handler of the outer try: except Exception as e
Except(e) == Return(UnexpectedPrefix \o e)

\* A request arrives: the UI calls summarize_youtube_video(url, max, min).
\* Nothing of an earlier invocation is kept: every local starts unbound.
Invoke ==
    /\ pc \in {"idle", "done"}
    /\ ncall < MaxCalls
    /\ ncall' = ncall + 1
    /\ \E u \in Urls, mx \in MaxLengths, mn \in MinLengths :
          /\ youtube_url' = u
          /\ max_length' = mx
          /\ min_length' = mn
    /\ tokenizer' = Unbound /\ model' = Unbound
    /\ video_id' = Unbound /\ transcript' = <<>> /\ full_text' = Unbound
    /\ summary' = Unbound
    /\ result' = NoResult
    /\ trace' = <<>>
    /\ pc' = "load_tokenizer"

\* A variant of LoadTokenizer: the tokenizer and the model of the first
\* invocation are kept, later invocations do not load.
LoadTokenizerCached ==
    /\ pc = "load_tokenizer"
    /\ \/ /\ ncall > 1
          /\ tokenizer' = model_name /\ model' = model_name
          /\ pc' = "extract_video_id"
          /\ UNCHANGED <<result, trace>>
       \/ /\ ncall = 1
          /\ tokenizer' = model_name
          /\ trace' = trace \o << Call("AutoTokenizer.from_pretrained", <<model_name>>),
                                  Returned("AutoTokenizer.from_pretrained", <<model_name>>) >>
          /\ pc' = "load_model"
          /\ UNCHANGED <<result, model>>
       \/ \E e \in LoadErrors :
          /\ ncall = 1
          /\ trace' = trace \o << Call("AutoTokenizer.from_pretrained", <<model_name>>),
                                  Raised("AutoTokenizer.from_pretrained", e) >>
          /\ Except(e)
          /\ UNCHANGED <<tokenizer, model>>
    /\ UNCHANGED <<ncall, args, video_id, transcript, full_text, summary>>

\* tokenizer = AutoTokenizer.from_pretrained(model_name)
LoadTokenizer ==
    /\ pc = "load_tokenizer"
    /\ \/ /\ tokenizer' = model_name
          /\ trace' = trace \o << Call("AutoTokenizer.from_pretrained", <<model_name>>),
                                  Returned("AutoTokenizer.from_pretrained", <<model_name>>) >>
          /\ pc' = "load_model"
          /\ UNCHANGED result
       \/ \E e \in LoadErrors :
          /\ trace' = trace \o << Call("AutoTokenizer.from_pretrained", <<model_name>>),
                                  Raised("AutoTokenizer.from_pretrained", e) >>
          /\ Except(e)
          /\ UNCHANGED tokenizer
    /\ UNCHANGED <<ncall, args, model, video_id, transcript, full_text, summary>>

\* model = AutoModelForSeq2SeqLM.from_pretrained(model_name)
LoadModel ==
    /\ pc = "load_model"
    /\ \/ /\ model' = model_name
          /\ trace' = trace \o << Call("AutoModelForSeq2SeqLM.from_pretrained", <<model_name>>),
                                  Returned("AutoModelForSeq2SeqLM.from_pretrained", <<model_name>>) >>
          /\ pc' = "extract_video_id"
          /\ UNCHANGED result
       \/ \E e \in LoadErrors :
          /\ trace' = trace \o << Call("AutoModelForSeq2SeqLM.from_pretrained", <<model_name>>),
                                  Raised("AutoModelForSeq2SeqLM.from_pretrained", e) >>
          /\ Except(e)
          /\ UNCHANGED model
    /\ UNCHANGED <<ncall, args, tokenizer, video_id, transcript, full_text, summary>>

\* video_id = extract_video_id(youtube_url)
ExtractVideoId ==
    /\ pc = "extract_video_id"
    /\ LET r == extract_video_id(youtube_url)
       IN  \/ /\ ~r.raised
              /\ video_id' = r.value
              /\ trace' = trace \o << Call("extract_video_id", <<youtube_url>>),
                                      Returned("extract_video_id", <<r.value>>) >>
              /\ pc' = "get_transcript"
              /\ UNCHANGED result
           \/ /\ r.raised
              /\ trace' = trace \o << Call("extract_video_id", <<youtube_url>>),
                                      Raised("extract_video_id", r.value) >>
              /\ Except(r.value)
              /\ UNCHANGED video_id
    /\ UNCHANGED <<ncall, args, tokenizer, model, transcript, full_text, summary>>

\* A variant of GetTranscript: no inner try, a failed fetch reaches the outer
\* handler.
GetTranscriptUnguarded ==
    /\ pc = "get_transcript"
    /\ \/ \E t \in Transcripts :
          /\ transcript' = t
          /\ trace' = trace \o << Call("get_transcript", <<video_id>>),
                                  Returned("get_transcript", t) >>
          /\ pc' = "check_transcript"
          /\ UNCHANGED result
       \/ \E e \in FetchErrors :
          /\ trace' = trace \o << Call("get_transcript", <<video_id>>),
                                  Raised("get_transcript", e) >>
          /\ Except(e)
          /\ UNCHANGED transcript
    /\ UNCHANGED <<ncall, args, tokenizer, model, video_id, full_text, summary>>

\* A variant of GetTranscript: the fetcher is given the URL, not the identifier.
GetTranscriptByUrl ==
    /\ pc = "get_transcript"
    /\ \/ \E t \in Transcripts :
          /\ transcript' = t
          /\ trace' = trace \o << Call("get_transcript", <<youtube_url>>),
                                  Returned("get_transcript", t) >>
          /\ pc' = "check_transcript"
          /\ UNCHANGED result
       \/ \E e \in FetchErrors :
          /\ trace' = trace \o << Call("get_transcript", <<youtube_url>>),
                                  Raised("get_transcript", e) >>
          /\ Return(FetchErrorPrefix \o e)
          /\ UNCHANGED transcript
    /\ UNCHANGED <<ncall, args, tokenizer, model, video_id, full_text, summary>>

\* try: transcript = YouTubeTranscriptApi.get_transcript(video_id)
\* except Exception as transcript_error: return f"Error fetching transcript: ..."
GetTranscript ==
    /\ pc = "get_transcript"
    /\ \/ \E t \in Transcripts :
          /\ transcript' = t
          /\ trace' = trace \o << Call("get_transcript", <<video_id>>),
                                  Returned("get_transcript", t) >>
          /\ pc' = "check_transcript"
          /\ UNCHANGED result
       \/ \E e \in FetchErrors :
          /\ trace' = trace \o << Call("get_transcript", <<video_id>>),
                                  Raised("get_transcript", e) >>
          /\ Return(FetchErrorPrefix \o e)
          /\ UNCHANGED transcript
    /\ UNCHANGED <<ncall, args, tokenizer, model, video_id, full_text, summary>>

\* if not transcript: return "No transcript available for this video."
CheckTranscript ==
    /\ pc = "check_transcript"
    /\ IF transcript = <<>>
       THEN Return(NoTranscriptMsg)
       ELSE pc' = "join" /\ UNCHANGED result
    /\ UNCHANGED <<ncall, args, locals, trace>>

\* full_text = ' '.join([entry['text'] for entry in transcript])
\* entry['text'] raises KeyError('text') for an entry without that key, and
\* str(KeyError('text')) is "'text'".
JoinText ==
    /\ pc = "join"
    /\ IF \A i \in DOMAIN transcript : "text" \in DOMAIN transcript[i]
       THEN /\ full_text' = join(" ", [i \in DOMAIN transcript |-> transcript[i].text])
            /\ pc' = "check_text"
            /\ UNCHANGED <<result, trace>>
       ELSE /\ trace' = Append(trace, Raised("entry['text']", "'text'"))
            /\ Except("'text'")
            /\ UNCHANGED full_text
    /\ UNCHANGED <<ncall, args, tokenizer, model, video_id, transcript, summary>>

\* if not full_text.strip(): return "Empty transcript found."
\* otherwise the call safe_summarize(full_text, tokenizer, model,
\*                                   max_length=max_length, min_length=min_length)
CheckText ==
    /\ pc = "check_text"
    /\ IF strip(full_text) = ""
       THEN Return(EmptyTranscriptMsg) /\ UNCHANGED trace
       ELSE /\ trace' = Append(trace, Call("safe_summarize",
                                           <<full_text, max_length, min_length>>))
            /\ pc' = "tokenize"
            /\ UNCHANGED result
    /\ UNCHANGED <<ncall, args, locals>>

(***************************************************************************)
(* safe_summarize                                                          *)
(***************************************************************************)

\* A variant of SummarizeExcept: the message that is printed is returned.
SummarizeExceptLeaks(e) ==
    /\ summary' = "Summarization error: " \o e
    /\ pc' = "return_summary"

\* The handler of safe_summarize: except Exception as e: print(...);
\* return "Could not generate summary due to an error."
SummarizeExcept(e) ==
    /\ summary' = Placeholder
    /\ pc' = "return_summary"

\* inputs = tokenizer(text, max_length=1024, return_tensors="pt", truncation=True)
Tokenize ==
    /\ pc = "tokenize"
    /\ \/ /\ trace' = trace \o << Call("tokenizer", <<full_text, TokenizerMaxLength>>),
                                  Returned("tokenizer", <<"input_ids">>) >>
          /\ pc' = "generate"
          /\ UNCHANGED summary
       \/ \E e \in SummarizeErrors :
          /\ SummarizeExcept(e)
          /\ trace' = trace \o << Call("tokenizer", <<full_text, TokenizerMaxLength>>),
                                  Raised("tokenizer", e),
                                  Returned("safe_summarize", <<summary'>>) >>
    /\ UNCHANGED <<ncall, args, tokenizer, model, video_id, transcript, full_text, result>>

\* A variant of Generate: a minimum above the maximum is lowered to it.
GenerateClamped ==
    /\ pc = "generate"
    /\ LET top == max_length + Buffer
           call == Call("model.generate",
                        <<top, IF min_length > top THEN top ELSE min_length,
                          LengthPenalty, NumBeams>>)
       IN  \/ /\ trace' = trace \o << call, Returned("model.generate", <<"summary_ids">>) >>
              /\ pc' = "decode"
              /\ UNCHANGED summary
           \/ \E e \in SummarizeErrors :
              /\ SummarizeExcept(e)
              /\ trace' = trace \o << call, Raised("model.generate", e),
                                      Returned("safe_summarize", <<summary'>>) >>
    /\ UNCHANGED <<ncall, args, tokenizer, model, video_id, transcript, full_text, result>>

\* summary_ids = model.generate(inputs['input_ids'], max_length=max_length + 50,
\*     min_length=min_length, length_penalty=2.0, num_beams=4, early_stopping=True)
Generate ==
    /\ pc = "generate"
    /\ LET call == Call("model.generate",
                        <<max_length + Buffer, min_length, LengthPenalty, NumBeams>>)
       IN  \/ /\ trace' = trace \o << call, Returned("model.generate", <<"summary_ids">>) >>
              /\ pc' = "decode"
              /\ UNCHANGED summary
           \/ \E e \in SummarizeErrors :
              /\ SummarizeExcept(e)
              /\ trace' = trace \o << call, Raised("model.generate", e),
                                      Returned("safe_summarize", <<summary'>>) >>
    /\ UNCHANGED <<ncall, args, tokenizer, model, video_id, transcript, full_text, result>>

\* summary = tokenizer.decode(summary_ids[0], skip_special_tokens=True)
\* return summary
Decode ==
    /\ pc = "decode"
    /\ \/ \E s \in Summaries :
          /\ summary' = s
          /\ pc' = "return_summary"
          /\ trace' = trace \o << Call("tokenizer.decode", <<"summary_ids">>),
                                  Returned("tokenizer.decode", <<s>>),
                                  Returned("safe_summarize", <<summary'>>) >>
       \/ \E e \in SummarizeErrors :
          /\ SummarizeExcept(e)
          /\ trace' = trace \o << Call("tokenizer.decode", <<"summary_ids">>),
                                  Raised("tokenizer.decode", e),
                                  Returned("safe_summarize", <<summary'>>) >>
    /\ UNCHANGED <<ncall, args, tokenizer, model, video_id, transcript, full_text, result>>

\* return summary
ReturnSummary ==
    /\ pc = "return_summary"
    /\ Return(summary)
    /\ UNCHANGED <<ncall, args, locals, trace>>

Next ==
    \/ Invoke
    \/ LoadTokenizer
    \/ LoadModel
    \/ ExtractVideoId
    \/ GetTranscript
    \/ CheckTranscript
    \/ JoinText
    \/ CheckText
    \/ Tokenize
    \/ Generate
    \/ Decode
    \/ ReturnSummary

Spec == Init /\ [][Next]_vars

(***************************************************************************)
(* extract_video_id on its own: the state is the one summarize_youtube_    *)
(* video is in when it reaches the call, for every input built from up to  *)
(* MaxSegs pieces, and the only step is the call.                          *)
(***************************************************************************)
InitExtract ==
    /\ pc = "extract_video_id"
    /\ ncall = 1
    /\ youtube_url \in UrlInputs /\ max_length = 250 /\ min_length = 50
    /\ tokenizer = model_name /\ model = model_name
    /\ video_id = Unbound /\ transcript = <<>> /\ full_text = Unbound
    /\ summary = Unbound
    /\ result = NoResult
    /\ trace = << Call("AutoTokenizer.from_pretrained", <<model_name>>),
                  Returned("AutoTokenizer.from_pretrained", <<model_name>>),
                  Call("AutoModelForSeq2SeqLM.from_pretrained", <<model_name>>),
                  Returned("AutoModelForSeq2SeqLM.from_pretrained", <<model_name>>) >>

NextExtract == ExtractVideoId

SpecExtract == InitExtract /\ [][NextExtract]_vars

(***************************************************************************)
(* Properties.                                                             *)
(***************************************************************************)

\* Positions of the trace where fn was called, returned, raised
Calls(fn) == {i \in DOMAIN trace : trace[i].ev = "call" /\ trace[i].fn = fn}
Returns(fn) == {i \in DOMAIN trace : trace[i].ev = "return" /\ trace[i].fn = fn}
Raises(fn) == {i \in DOMAIN trace : trace[i].ev = "raise" /\ trace[i].fn = fn}

StartsWith(s, prefix) == HasAt(s, 1, prefix)
Contains(s, sub) == \E i \in 1..(Len(s) - Len(sub) + 1) : HasAt(s, i, sub)
AllChars(s, P(_)) == \A i \in 1..Len(s) : P(Char(s, i))
IsWhite(c) == c \in Whitespace

\* URL shape k occurs in s at position j: its literal, then a character that
\* is neither '&' nor white space
ShapeAt(k, s, j) ==
    LET n == Len(patterns[k].lit)
    IN  /\ HasAt(s, j, patterns[k].lit)
        /\ j + n <= Len(s)
        /\ IdChar(Char(s, j + n))
Shapes(s) == {k \in DOMAIN patterns : \E j \in 1..Len(s) : ShapeAt(k, s, j)}
FirstShapeAt(k, s) ==
    CHOOSE j \in 1..Len(s) : ShapeAt(k, s, j) /\ \A i \in 1..(j-1) : ~ShapeAt(k, s, i)

\* The functions whose exceptions no inner handler catches
OuterFns == {"AutoTokenizer.from_pretrained", "AutoModelForSeq2SeqLM.from_pretrained",
             "extract_video_id", "entry['text']"}
\* The calls inside the try of safe_summarize
InnerFns == {"tokenizer", "model.generate", "tokenizer.decode"}

\* C1: summarize_youtube_video never lets an exception escape: however the
\* collaborators return or raise, the call ends by returning a string,
\* and an exception no inner handler catches is returned as
\* "An unexpected error occurred: " followed by its message.
C1_NoExceptionEscapes ==
    /\ result.kind # "raise"
    /\ pc = "done" => result.kind = "return" /\ result.value \in STRING
    /\ \A i \in DOMAIN trace :
          (trace[i].ev = "raise" /\ trace[i].fn \in OuterFns)
             => /\ pc = "done"
                /\ i = Len(trace)
                /\ result = [kind |-> "return",
                             value |-> "An unexpected error occurred: " \o trace[i].data[1]]

C1_Witness ==
    /\ pc = "done"
    /\ Raises("entry['text']") # {}
    /\ result = [kind |-> "return", value |-> "An unexpected error occurred: 'text'"]

\* C2: for a url that matches none of the four patterns, extract_video_id
\* raises ValueError("Invalid YouTube URL"), summarize_youtube_video returns a
\* string that begins with "An unexpected error occurred" and wraps the message
\* of the exception, and neither the transcript fetcher nor safe_summarize is
\* called.
C2_InvalidUrl ==
    (ncall > 0 /\ Shapes(youtube_url) = {}) =>
        /\ Calls("get_transcript") = {}
        /\ Calls("safe_summarize") = {}
        /\ Returns("extract_video_id") = {}
        /\ \A i \in Calls("extract_video_id") :
              /\ trace[i + 1].ev = "raise"
              /\ trace[i + 1].data = <<"Invalid YouTube URL">>
              /\ pc = "done"
              /\ result.value = "An unexpected error occurred: Invalid YouTube URL"
        /\ pc = "done" =>
              /\ result.kind = "return"
              /\ StartsWith(result.value, "An unexpected error occurred")
              /\ trace[Len(trace)].ev = "raise"
              /\ result.value = "An unexpected error occurred: " \o trace[Len(trace)].data[1]

C2_Witness ==
    /\ pc = "done"
    /\ youtube_url = "not a url"
    /\ Raises("extract_video_id") # {}
    /\ result.value = "An unexpected error occurred: Invalid YouTube URL"

\* C3: whenever the transcript fetch for the extracted identifier raises,
\* summarize_youtube_video returns exactly "Error fetching transcript: "
\* followed by the message; the result does not begin with "An unexpected
\* error occurred", and safe_summarize is not called.
C3_FetchFailure ==
    \A i \in Raises("get_transcript") :
        /\ trace[i - 1].ev = "call" /\ trace[i - 1].fn = "get_transcript"
        /\ trace[i - 1].data = <<video_id>>
        /\ \E j \in Returns("extract_video_id") : j < i /\ trace[j].data = <<video_id>>
        /\ pc = "done"
        /\ result = [kind |-> "return",
                     value |-> "Error fetching transcript: " \o trace[i].data[1]]
        /\ ~StartsWith(result.value, "An unexpected error occurred")
        /\ Calls("safe_summarize") = {}
        /\ i = Len(trace)

C3_Witness ==
    /\ pc = "done"
    /\ Raises("get_transcript") # {}
    /\ result.value =
         "Error fetching transcript: An unexpected error occurred: video unavailable"

\* Every fragment has a text and every character of every text is white space
BlankTexts(t) ==
    \A i \in DOMAIN t : "text" \in DOMAIN t[i] /\ AllChars(t[i].text, IsWhite)

\* C4: when the fetch returns a transcript without content the result is a
\* fixed string and the summarizer is never called: "No transcript available
\* for this video." exactly when the list is empty, "Empty transcript found."
\* exactly when the list is not empty and the joined texts are empty or white
\* space only.
C4_EmptyTranscript ==
    (Returns("get_transcript") # {} /\ BlankTexts(transcript)) =>
        /\ Calls("safe_summarize") = {}
        /\ pc \in {"check_transcript", "join", "check_text", "done"}
        /\ pc = "done" =>
              /\ result.kind = "return"
              /\ result.value \in {"No transcript available for this video.",
                                   "Empty transcript found."}
              /\ result.value = "No transcript available for this video."
                    <=> transcript = <<>>
              /\ result.value = "Empty transcript found."
                    <=> transcript # <<>>

C4_Witness ==
    /\ pc = "done"
    /\ Returns("get_transcript") # {}
    /\ BlankTexts(transcript)
    /\ Len(transcript) = 2
    /\ transcript[1].text = " \t" \o VT \o FS /\ transcript[2].text = ""
    /\ result.value = "Empty transcript found."
    /\ Calls("safe_summarize") = {}

\* C5: extract_video_id tries the shapes in the order watch?v=, youtu.be/,
\* /embed/, /v/ and returns the group of the first of them, in that order, that
\* matches anywhere in the input, not the leftmost match in the string: what
\* follows the first occurrence of that shape up to the next '&', white space
\* or the end.  The identifier is a non-empty substring of the input without
\* '&' and white space; each supported shape gives the expected identifier;
\* the function raises if and only if no shape matches.
C5_ExtractVideoId ==
    pc # "extract_video_id" =>
        LET u == youtube_url
            ks == Shapes(u)
        IN  /\ pc = "done" <=> ks = {}
            /\ pc = "done" =>
                  /\ Raises("extract_video_id") # {}
                  /\ trace[Len(trace)].data = <<"Invalid YouTube URL">>
            /\ pc = "get_transcript" <=> ks # {}
            /\ pc = "get_transcript" =>
                  LET k == CHOOSE x \in ks : \A y \in ks : x <= y
                      g == FirstShapeAt(k, u) + Len(patterns[k].lit)
                  IN  /\ video_id # ""
                      /\ Contains(u, video_id)
                      /\ AllChars(video_id, IdChar)
                      /\ HasAt(u, g, video_id)
                      /\ \/ g + Len(video_id) > Len(u)
                         \/ ~IdChar(Char(u, g + Len(video_id)))
                      /\ trace[Len(trace)] = Returned("extract_video_id", <<video_id>>)
            /\ \A k \in DOMAIN patterns :
               \A pre \in {"", "https://", "http://", "www.", "https://www.", "http://www."} :
               \A id \in {"dQw4w9WgXcQ", "J8O9_ugpDjE", "abc", "x"} :
               \A rest \in {"", "&", " ", "&t=1", " def", VT, VT \o "x"} :
                  u = pre \o patterns[k].lit \o id \o rest
                     => pc = "get_transcript" /\ video_id = id

C5_Witness ==
    /\ pc = "get_transcript"
    /\ {1, 2} \subseteq Shapes(youtube_url)
    /\ FirstShapeAt(2, youtube_url) < FirstShapeAt(1, youtube_url)
    /\ video_id = "dQw4w9WgXcQ"

\* Offset(t, k): where the text of fragment k starts in the joined text,
\* counted from 0: the lengths of the texts before it and one space for each
RECURSIVE Offset(_, _)
Offset(t, k) == IF k = 1 THEN 0 ELSE Offset(t, k - 1) + Len(t[k - 1].text) + 1

\* s is the texts of t in their order, with one space between neighbours
IsSpaceJoined(s, t) ==
    /\ t # <<>>
    /\ Len(s) = Offset(t, Len(t)) + Len(t[Len(t)].text)
    /\ \A k \in DOMAIN t :
          /\ HasAt(s, Offset(t, k) + 1, t[k].text)
          /\ k > 1 => Char(s, Offset(t, k)) = " "

\* C6: for every non-empty transcript whose joined text is not blank, the text
\* handed to safe_summarize is exactly the fragments' texts joined by single
\* spaces in their order: none dropped, reordered, trimmed or duplicated.
C6_JoinedText ==
    /\ \A i \in Calls("safe_summarize") :
          /\ IsSpaceJoined(trace[i].data[1], transcript)
          /\ \E j \in Returns("get_transcript") : j < i /\ trace[j].data = transcript
    /\ ( /\ pc = "done"
         /\ Returns("get_transcript") # {}
         /\ transcript # <<>>
         /\ \A k \in DOMAIN transcript : "text" \in DOMAIN transcript[k]
         /\ ~BlankTexts(transcript) )
       => Cardinality(Calls("safe_summarize")) = 1

C6_Witness ==
    /\ pc = "done"
    /\ \E i \in Calls("safe_summarize") : trace[i].data[1] = "Hello  world."
    /\ Len(transcript) = 3
    /\ transcript[2].text = ""

\* C7: an exception raised while tokenizing, generating or decoding inside
\* safe_summarize is caught there: safe_summarize returns the placeholder
\* "Could not generate summary due to an error.", which holds nothing of the
\* exception, and summarize_youtube_video returns the placeholder unchanged.
C7_SummarizeFailure ==
    \A i \in DOMAIN trace :
        (trace[i].ev = "raise" /\ trace[i].fn \in InnerFns) =>
            /\ i + 1 = Len(trace)
            /\ trace[i + 1] = Returned("safe_summarize",
                                       <<"Could not generate summary due to an error.">>)
            /\ ~Contains(trace[i + 1].data[1], trace[i].data[1])
            /\ Raises("safe_summarize") = {}
            /\ pc \in {"return_summary", "done"}
            /\ pc = "done" =>
                  result = [kind |-> "return",
                            value |-> "Could not generate summary due to an error."]

C7_Witness ==
    /\ pc = "done"
    /\ Raises("model.generate") # {}
    /\ result.value = "Could not generate summary due to an error."

\* C8 as stated: every invocation of safe_summarize issues exactly one
\* generation call, with maximum max_length + 50 and minimum min_length,
\* before it returns.
C8_ExactlyOneGeneration ==
    Returns("safe_summarize") # {} =>
        /\ Cardinality(Calls("model.generate")) = 1
        /\ \A i \in Calls("model.generate") :
              trace[i].data[1] = max_length + 50 /\ trace[i].data[2] = min_length

\* C8, amended: safe_summarize issues at most one generation call per
\* invocation and never retries: exactly one when tokenization returned, none
\* when tokenization raised.  The call has maximum max_length + 50 and minimum
\* the caller's min_length unchanged, also when min_length exceeds max_length
\* or max_length + 50; safe_summarize then returns the decoded summary or the
\* placeholder.
C8_AtMostOneGeneration ==
    /\ Cardinality(Calls("model.generate")) <= 1
    /\ Cardinality(Calls("safe_summarize")) <= 1
    /\ \A i \in Calls("model.generate") :
          /\ trace[i].data[1] = max_length + 50
          /\ trace[i].data[2] = min_length
          /\ Calls("safe_summarize") # {}
          /\ trace[i - 1] = Returned("tokenizer", <<"input_ids">>)
    /\ \A i \in Returns("safe_summarize") :
          /\ Cardinality(Calls("model.generate")) = 1 <=> Returns("tokenizer") # {}
          /\ Cardinality(Calls("model.generate")) = 0 <=> Raises("tokenizer") # {}
          /\ \/ /\ trace[i - 1].ev = "return" /\ trace[i - 1].fn = "tokenizer.decode"
                /\ trace[i].data = trace[i - 1].data
             \/ /\ trace[i - 1].ev = "raise"
                /\ trace[i].data = <<"Could not generate summary due to an error.">>
    /\ \A i \in Returns("tokenizer") :
          pc \notin {"generate"} => Calls("model.generate") # {}

C8_Witness ==
    /\ pc = "done"
    /\ max_length = 20 /\ min_length = 100
    /\ \E i \in Calls("model.generate") :
          trace[i].data[1] = 70 /\ trace[i].data[2] = 100
    /\ Returns("tokenizer.decode") # {}

Stages == {"extract_video_id", "get_transcript", "safe_summarize"}

\* C9: the pipeline is the linear chain parse URL, fetch transcript, summarize;
\* each stage runs at most once per invocation and only after the one before
\* it succeeded.  The fetcher is called only after extract_video_id returned,
\* with the identifier it returned ("https://youtu.be/J8O9_ugpDjE" passes
\* "J8O9_ugpDjE"); safe_summarize is called only after the fetch returned a
\* transcript that is not empty and not blank; after a stage failed no later
\* stage runs.
C9_LinearChain ==
    /\ \A fn \in Stages : Cardinality(Calls(fn)) <= 1
    /\ \A i \in Calls("get_transcript") :
          \E j \in Returns("extract_video_id") :
              /\ j < i
              /\ trace[i].data = trace[j].data
              /\ youtube_url = "https://youtu.be/J8O9_ugpDjE"
                    => trace[i].data = <<"J8O9_ugpDjE">>
    /\ \A i \in Calls("safe_summarize") :
          \E j \in Returns("get_transcript") :
              /\ j < i
              /\ trace[j].data # <<>>
              /\ \A k \in DOMAIN trace[j].data : "text" \in DOMAIN trace[j].data[k]
              /\ ~BlankTexts(trace[j].data)
    /\ \A i \in DOMAIN trace :
          (trace[i].ev = "raise" /\ trace[i].fn \notin InnerFns) =>
              \A j \in DOMAIN trace :
                  (j > i) => ~(trace[j].ev = "call" /\ trace[j].fn \in Stages)
    /\ \A i \in Returns("get_transcript") :
          (trace[i].data = <<>> \/ BlankTexts(trace[i].data))
              => Calls("safe_summarize") = {}

C9_Witness ==
    /\ pc = "done"
    /\ youtube_url = "https://youtu.be/J8O9_ugpDjE"
    /\ \E i \in Calls("get_transcript") : trace[i].data = <<"J8O9_ugpDjE">>
    /\ Returns("safe_summarize") # {}

\* What an invocation returns, from its own url and from what the
\* collaborators answered to its own calls
Answer(fn) == trace[CHOOSE i \in DOMAIN trace : trace[i].fn = fn /\ trace[i].ev # "call"]
Asked(fn) == \E i \in DOMAIN trace : trace[i].fn = fn /\ trace[i].ev # "call"
OwnResult ==
    LET unexpected(fn) == "An unexpected error occurred: " \o Answer(fn).data[1]
        failed(fn) == Asked(fn) /\ Answer(fn).ev = "raise"
        t == Answer("get_transcript").data
    IN  IF failed("AutoTokenizer.from_pretrained")
          THEN unexpected("AutoTokenizer.from_pretrained")
        ELSE IF failed("AutoModelForSeq2SeqLM.from_pretrained")
          THEN unexpected("AutoModelForSeq2SeqLM.from_pretrained")
        ELSE IF Shapes(youtube_url) = {}
          THEN "An unexpected error occurred: Invalid YouTube URL"
        ELSE IF failed("get_transcript")
          THEN "Error fetching transcript: " \o Answer("get_transcript").data[1]
        ELSE IF t = <<>>
          THEN "No transcript available for this video."
        ELSE IF \E k \in DOMAIN t : "text" \notin DOMAIN t[k]
          THEN "An unexpected error occurred: 'text'"
        ELSE IF BlankTexts(t)
          THEN "Empty transcript found."
        ELSE IF \E fn \in InnerFns : failed(fn)
          THEN "Could not generate summary due to an error."
        ELSE Answer("tokenizer.decode").data[1]

TokLoad == "AutoTokenizer.from_pretrained"
ModelLoad == "AutoModelForSeq2SeqLM.from_pretrained"

\* C10 as stated: every invocation loads the tokenizer and the model exactly
\* once, on every path.
C10_BothLoadedOnce ==
    pc = "done" =>
        /\ Cardinality(Calls(TokLoad)) = 1
        /\ Cardinality(Calls(ModelLoad)) = 1

\* C10, amended: every invocation, whatever invocations came before it, calls
\* the tokenizer load exactly once, as its first step, and the model load
\* exactly once right after it unless the tokenizer load raised, in which case
\* the model load is not attempted; both come before the URL is parsed, on
\* every path, also for an invalid URL.  A load failure returns "An
\* unexpected error occurred: ..." even for a valid URL, and neither the URL
\* parser nor the fetcher is called.  Nothing is kept between invocations: the
\* result is determined by the invocation's own inputs and by what the
\* collaborators answered during it.
C10_FreshLoadEveryCall ==
    /\ pc \notin {"idle", "load_tokenizer"} =>
          /\ Calls(TokLoad) = {1}
          /\ (Raises(TokLoad) = {} /\ pc # "load_model") => Calls(ModelLoad) = {3}
          /\ Raises(TokLoad) # {} => Calls(ModelLoad) = {}
    /\ Cardinality(Calls(TokLoad)) <= 1 /\ Cardinality(Calls(ModelLoad)) <= 1
    /\ \A i \in Calls("extract_video_id") :
          /\ Returns(TokLoad) = {2}
          /\ Returns(ModelLoad) = {4}
          /\ i = 5
    /\ \A fn \in {TokLoad, ModelLoad} : \A i \in Raises(fn) :
          /\ pc = "done"
          /\ result = [kind |-> "return",
                       value |-> "An unexpected error occurred: " \o trace[i].data[1]]
          /\ Calls("extract_video_id") = {}
          /\ Calls("get_transcript") = {}
    /\ pc = "done" => result.value = OwnResult

C10_Witness ==
    /\ pc = "done"
    /\ ncall = 2
    /\ youtube_url = "https://youtu.be/J8O9_ugpDjE"
    /\ Raises(ModelLoad) # {}
    /\ Calls(TokLoad) = {1}
    /\ StartsWith(result.value, "An unexpected error occurred: ")

=============================================================================
